---- MODULE Spec2Model ----
(***************************************************************************)
(* Model of the ESP32-S3 mouse jiggler sketch (esp32-Mouse-Jiggler.ino):   *)
(* the globals gState, gSession, gStartMs, gNextActionMs, the LED pin and  *)
(* the millisecond counter millis() returns, with one action for setup()   *)
(* and one per branch of loop().                                           *)
(*                                                                         *)
(* Time.  millis() is an unsigned long, a 32-bit counter on the ESP32-S3.  *)
(* The model keeps the unsigned arithmetic (every sum and difference of    *)
(* counter values is taken modulo Modulus) on a counter of ClockBits bits, *)
(* and scales the durations of the sketch down so that they fit in it,     *)
(* keeping their order:                                                    *)
(*   delay(1) < kStepInterval <= delay(5) < delay(100) < delay(1000)       *)
(*            < kMinPauseMs < kMaxPauseMs < limitMs < 2^32                 *)
(* and keeping gStartMs + limitMs + the longest pause below the modulus,   *)
(* as it is for the sketch (8 hours against 49.7 days).                    *)
(* The step counts kMinSteps..kMaxSteps are scaled down likewise; the      *)
(* displacement range kMoveRangePx is the sketch's, sampled on a subset.   *)
(***************************************************************************)
EXTENDS Integers, Sequences, FiniteSets, TLC

VARIABLES
  pc,             \* "boot" before setup() has run, "loop" afterwards
  clock,          \* the value millis() returns now
  hoursToRun,     \* the compile-time tunable kHoursToRun of this build
  gState,         \* JiggleState: "IDLE" | "MOVING"
  gSession,       \* MovementSession
  gStartMs,
  gNextActionMs,
  led,            \* level of kLedPin: "LOW" | "HIGH"
  poll,           \* history: what the last loop() invocation did
  moves,          \* history: the (dx, dy) passed to Mouse.move in the current burst
  stepCalls,      \* history: stepSessionIfDue invocations in the current burst (capped)
  sched,          \* history: the last scheduleNextIdleWindow call
  schedAge,       \* history: real time since that call (capped)
  stepAge,        \* history: real time since the last performed micro-step (capped)
  timeUpSeen,     \* history: some poll has taken the time's-up branch
  upMs            \* history: real time since setup() read gStartMs (capped)

vars == <<pc, clock, hoursToRun, gState, gSession, gStartMs, gNextActionMs, led,
          poll, moves, stepCalls, sched, schedAge, stepAge, timeUpSeen, upMs>>

----------------------------------------------------------------------------
(* Tunables, lines 28-34 (durations and step counts scaled, see above).    *)

kMoveRangePx == 100
kMinPauseMs == 5
kMaxPauseMs == 7
kMinSteps == 2
kMaxSteps == 3
kStepInterval == 2
kHoursToRun == 8

(* The factor 60.0f * 60.0f * 1000.0f of line 160, scaled.                 *)
MsPerHour == 3

(* The arguments of the delay() calls: lines 173, 179, 127 and 164.        *)
kIdleDelayMs == 2
kMovingDelayMs == 1
kBlinkMs == 3
kDoneDelayMs == 4

(* Width of unsigned long (scaled from 32).                                *)
ClockBits == 6
Modulus == 2 ^ ClockBits

(* The time that may pass, beyond the delays, between two reads of         *)
(* millis() in one handler, and the latest counter value at which setup()  *)
(* starts after the reset.                                                 *)
MaxJitter == 1
MaxBootMs == 1

(* The values of kHoursToRun considered by ConfigSpec: the sketch's, and   *)
(* the 0 that README.md line 89 documents.                                 *)
HoursChoices == {0, kHoursToRun}

(* The displacements sampled by the model: a subset of the range of        *)
(* random(-kMoveRangePx, kMoveRangePx + 1).                                *)
MoveSamples == {-kMoveRangePx, 0, 1, 10}

(* Caps of the history counters.                                           *)
CallCap == kMaxSteps * kStepInterval + 2
SchedAgeCap == kMaxPauseMs + 1
StepAgeCap == kStepInterval + 1
UpCap == Modulus

----------------------------------------------------------------------------
(* Unsigned long arithmetic.                                               *)

Add(a, b) == (a + b) % Modulus
Sub_Signed(a, b) == a - b
Sub(a, b) == (a - b) % Modulus

Age(a, d, cap) == IF a + d > cap THEN cap ELSE a + d

(* The real time a handler took: it is shorter than one lap of the counter. *)
Took(before, after) == (after - before) % Modulus

(* Arduino's random(min, max): an integer in [min, max - 1].               *)
Random_Inclusive(lo, hi) == lo .. hi
Random(lo, hi) == lo .. (hi - 1)

(* limitMs of line 160.                                                    *)
LimitMs(h) == h * MsPerHour

(* The test of line 162.                                                   *)
TimeIsUp_Strict(elapsedMs, limitMs) == elapsedMs > limitMs
TimeIsUp(elapsedMs, limitMs) == elapsedMs >= limitMs

(* The test of line 170.                                                   *)
DeadlineReached_Reversed(now, nextActionMs) == now <= nextActionMs
DeadlineReached(now, nextActionMs) == now >= nextActionMs

(* The test of line 100.                                                   *)
StepNotDue_Short(now, lastStepMs) == Sub(now, lastStepMs) < kStepInterval - 1
StepNotDue(now, lastStepMs) == Sub(now, lastStepMs) < kStepInterval

(* The sum of line 77.                                                     *)
DeadlineAfter_Absolute(t, pause) == pause
DeadlineAfter(t, pause) == Add(t, pause)

(* The test of line 124.                                                   *)
BurstDone_Strict(i, steps) == i > steps
BurstDone(i, steps) == i >= steps

----------------------------------------------------------------------------
(* easeCosine01 (lines 63-66) at t = k / n, in units of 1 / Scale:         *)
(* 0.5 * (1 - cos(pi * k / n)), rounded to the nearest unit.  The float    *)
(* evaluation of the sketch gives exactly 0, 0.25, 0.5, 0.75 and 1 where   *)
(* the table does; with |totalDx| <= kMoveRangePx the product rounded by   *)
(* lroundf is the same for the table and for the float value, also with    *)
(* the cosine one unit in the last place off.                              *)

Scale == 10 ^ 6

EaseTable ==
  <<  <<0, 1000000>>,
      <<0, 500000, 1000000>>,
      <<0, 250000, 750000, 1000000>>,
      <<0, 146447, 500000, 853553, 1000000>>,
      <<0, 95492, 345492, 654508, 904508, 1000000>>,
      <<0, 66987, 250000, 500000, 750000, 933013, 1000000>>  >>

(* cos is even about pi: for n < k <= 2n the value is that of 2n - k.      *)
easeCosine01(k, n) ==
  IF k <= n THEN EaseTable[n][k + 1] ELSE EaseTable[n][2 * n - k + 1]

(* lroundf: to the nearest integer, halves away from zero.                 *)
LRound(num, den) ==
  IF num >= 0 THEN (2 * num + den) \div (2 * den)
              ELSE -((2 * (-num) + den) \div (2 * den))

(* xPos, yPos of lines 110-111.                                            *)
StepPos(total, k, n) == LRound(total * easeCosine01(k, n), Scale)

(* dx, dy of lines 113-114.                                                *)
StepDelta_PerStep(total, prev, k, n) ==
  LRound(total * (easeCosine01(k, n) - easeCosine01(k - 1, n)), Scale)
StepDelta(total, prev, k, n) == StepPos(total, k, n) - prev

(* Lines 104-122: the session after the micro-step taken at time now.      *)
MicroStep_Remaining(s, now) ==
  [s EXCEPT !.lastStepMs = now,
            !.totalDx = @ - (StepPos(s.totalDx, s.i + 1, s.steps) - s.prevX),
            !.totalDy = @ - (StepPos(s.totalDy, s.i + 1, s.steps) - s.prevY),
            !.prevX = StepPos(s.totalDx, s.i + 1, s.steps),
            !.prevY = StepPos(s.totalDy, s.i + 1, s.steps),
            !.i = s.i + 1]
MicroStep_StalePrev(s, now) ==
  [s EXCEPT !.lastStepMs = now, !.i = s.i + 1]
MicroStep_Skip(s, now) ==
  [s EXCEPT !.lastStepMs = now,
            !.prevX = StepPos(s.totalDx, s.i + 2, s.steps),
            !.prevY = StepPos(s.totalDy, s.i + 2, s.steps),
            !.i = s.i + 2]
MicroStep(s, now) ==
  LET nextIndex == s.i + 1 IN
  [s EXCEPT !.lastStepMs = now,
            !.prevX = StepPos(s.totalDx, nextIndex, s.steps),
            !.prevY = StepPos(s.totalDy, nextIndex, s.steps),
            !.i = nextIndex]

(* Lines 113-118: the event of that micro-step, <<>> when both are zero.   *)
MicroStepMoves_Always(s) ==
  << <<StepDelta(s.totalDx, s.prevX, s.i + 1, s.steps),
       StepDelta(s.totalDy, s.prevY, s.i + 1, s.steps)>> >>
MicroStepMoves(s) ==
  LET dx == StepDelta(s.totalDx, s.prevX, s.i + 1, s.steps)
      dy == StepDelta(s.totalDy, s.prevY, s.i + 1, s.steps)
  IN IF dx # 0 \/ dy # 0 THEN << <<dx, dy>> >> ELSE << >>

(* Lines 96-98.                                                            *)
FirstStepStamp(s, now) ==
  IF s.i = 0 THEN [s EXCEPT !.lastStepMs = now] ELSE s

(* MovementSession's default member initialisers, lines 45-55.             *)
InitialSession ==
  [totalDx |-> 0, totalDy |-> 0, steps |-> 0,
   prevX |-> 0, prevY |-> 0, i |-> 0, lastStepMs |-> 0]

(* Lines 81-88.                                                            *)
FreshSession_AtTarget(dx, dy, n) ==
  [totalDx |-> dx, totalDy |-> dy, steps |-> n,
   prevX |-> dx, prevY |-> dy, i |-> 0, lastStepMs |-> 0]
FreshSession(dx, dy, n) ==
  [totalDx |-> dx, totalDy |-> dy, steps |-> n,
   prevX |-> 0, prevY |-> 0, i |-> 0, lastStepMs |-> 0]

(* poll: the branch taken; waited: real time since the last schedule at the
   deadline test of an IDLE poll; age: real time since the last micro-step at
   the timestamp of a MOVING poll; effects: the outputs and global writes
   of the invocation, in the order of the code; atLimit: a time's-up poll with
   elapsedMs = limitMs exactly.                                            *)
NoPoll ==
  [branch |-> "none", waited |-> 0, age |-> 0, atLimit |-> FALSE,
   effects |-> << >>]

(* Lines 116-118, and lines 125-132 in their order: digitalWrite HIGH,     *)
(* delay, digitalWrite LOW, gState = IDLE, scheduleNextIdleWindow().       *)
MoveEffects(s) == IF MicroStepMoves(s) # << >> THEN <<"move">> ELSE << >>
CompletionEffects == <<"led_high", "led_low", "idle", "schedule">>
NoSched == [from |-> "none", at |-> 0, pause |-> 0, now |-> 0]

----------------------------------------------------------------------------
(* The state after the static initialisers (lines 57-60), before setup().  *)

Boot(h) ==
  /\ pc = "boot"
  /\ clock \in 0 .. MaxBootMs
  /\ hoursToRun = h
  /\ gState = "IDLE"
  /\ gSession = InitialSession
  /\ gStartMs = 0
  /\ gNextActionMs = 0
  /\ led = "LOW"
  /\ poll = NoPoll
  /\ moves = << >>
  /\ stepCalls = 0
  /\ sched = NoSched
  /\ schedAge = 0
  /\ stepAge = 0
  /\ timeUpSeen = FALSE
  /\ upMs = 0

Init == Boot(kHoursToRun)

(* setup(), lines 139-156.                                                 *)
setup ==
  /\ pc = "boot"
  /\ pc' = "loop"
  /\ led' = "LOW"
  /\ gStartMs' = clock
  /\ \E d \in 0 .. MaxJitter, p \in Random(kMinPauseMs, kMaxPauseMs) :
       /\ clock' = Add(clock, d)
       /\ gNextActionMs' = DeadlineAfter(Add(clock, d), p)
       /\ sched' = [from |-> "setup", at |-> Add(clock, d), pause |-> p, now |-> clock]
  /\ schedAge' = 0
  /\ upMs' = Took(clock, clock')
  /\ UNCHANGED <<hoursToRun, gState, gSession, poll, moves, stepCalls, stepAge,
                 timeUpSeen>>

(* loop(), lines 158-166: the time's-up branch.                            *)
LoopTimeUp ==
  /\ pc = "loop"
  /\ TimeIsUp(Sub(clock, gStartMs), LimitMs(hoursToRun))
  /\ led' = "HIGH"
  /\ timeUpSeen' = TRUE
  /\ \E d \in 0 .. MaxJitter :
       /\ clock' = Add(clock, kDoneDelayMs + d)
       /\ schedAge' = Age(schedAge, kDoneDelayMs + d, SchedAgeCap)
       /\ stepAge' = Age(stepAge, kDoneDelayMs + d, StepAgeCap)
  /\ poll' = [branch |-> "timeup", waited |-> 0, age |-> 0,
              effects |-> <<"led_high">>,
              atLimit |-> (Sub(clock, gStartMs) = LimitMs(hoursToRun))]
  /\ upMs' = Age(upMs, Took(clock, clock'), UpCap)
  /\ UNCHANGED <<pc, hoursToRun, gState, gSession, gStartMs, gNextActionMs, moves,
                 stepCalls, sched>>

(* loop(), lines 168-175, with beginSession (lines 80-91).                 *)
LoopIdle ==
  /\ pc = "loop"
  /\ ~TimeIsUp(Sub(clock, gStartMs), LimitMs(hoursToRun))
  /\ gState = "IDLE"
  /\ \E d \in 0 .. MaxJitter :
       LET now == Add(clock, d)
           thePoll == [branch |-> "idle", atLimit |-> FALSE, effects |-> << >>,
                       waited |-> Age(schedAge, d, SchedAgeCap), age |-> 0]
       IN IF DeadlineReached(now, gNextActionMs)
          THEN /\ \E dx \in MoveSamples, dy \in MoveSamples,
                     n \in Random(kMinSteps, kMaxSteps + 1) :
                     gSession' = FreshSession(dx, dy, n)
               /\ gState' = "MOVING"
               /\ clock' = now
               /\ schedAge' = Age(schedAge, d, SchedAgeCap)
               /\ stepAge' = Age(stepAge, d, StepAgeCap)
               /\ moves' = << >>
               /\ stepCalls' = 0
               /\ poll' = [thePoll EXCEPT !.branch = "begin"]
          ELSE /\ clock' = Add(now, kIdleDelayMs)
               /\ schedAge' = Age(schedAge, d + kIdleDelayMs, SchedAgeCap)
               /\ stepAge' = Age(stepAge, d + kIdleDelayMs, StepAgeCap)
               /\ poll' = [thePoll EXCEPT !.branch = "wait"]
               /\ UNCHANGED <<gState, gSession, moves, stepCalls>>
  /\ upMs' = Age(upMs, Took(clock, clock'), UpCap)
  /\ UNCHANGED <<pc, hoursToRun, gStartMs, gNextActionMs, led, sched, timeUpSeen>>

(* loop(), lines 177-180, with stepSessionIfDue (lines 93-136) and, when   *)
(* the burst completes, scheduleNextIdleWindow (lines 76-78).              *)
LoopMoving ==
  /\ pc = "loop"
  /\ ~TimeIsUp(Sub(clock, gStartMs), LimitMs(hoursToRun))
  /\ gState = "MOVING"
  /\ stepCalls' = Age(stepCalls, 1, CallCap)
  /\ \E d \in 0 .. MaxJitter :
       LET now == Add(clock, d)
           stamped == FirstStepStamp(gSession, now)
           stepped == MicroStep(stamped, now)
           thePoll == [branch |-> "step", atLimit |-> FALSE,
                       effects |-> MoveEffects(stamped),
                       waited |-> 0, age |-> Age(stepAge, d, StepAgeCap)]
       IN IF StepNotDue(now, stamped.lastStepMs)
          THEN /\ gSession' = stamped
               /\ clock' = Add(now, kMovingDelayMs)
               /\ schedAge' = Age(schedAge, d + kMovingDelayMs, SchedAgeCap)
               /\ stepAge' = Age(stepAge, d + kMovingDelayMs, StepAgeCap)
               /\ poll' = [thePoll EXCEPT !.branch = "notdue", !.effects = << >>]
               /\ UNCHANGED <<gState, gNextActionMs, led, moves, sched>>
          ELSE /\ gSession' = stepped
               /\ moves' = moves \o MicroStepMoves(stamped)
               /\ IF BurstDone(stepped.i, stepped.steps)
                  THEN /\ led' = "LOW"
                       /\ gState' = "IDLE"
                       /\ \E d2 \in 0 .. MaxJitter,
                             p \in Random(kMinPauseMs, kMaxPauseMs) :
                            LET t == Add(now, kBlinkMs + d2) IN
                            /\ gNextActionMs' = DeadlineAfter(t, p)
                            /\ sched' = [from |-> "burst", at |-> t, pause |-> p,
                                         now |-> now]
                            /\ clock' = Add(t, kMovingDelayMs)
                            /\ stepAge' = Age(0, kBlinkMs + d2 + kMovingDelayMs,
                                              StepAgeCap)
                       /\ schedAge' = kMovingDelayMs
                       /\ poll' = [thePoll EXCEPT
                                     !.branch = "complete",
                                     !.effects = @ \o CompletionEffects]
                  ELSE /\ clock' = Add(now, kMovingDelayMs)
                       /\ schedAge' = Age(schedAge, d + kMovingDelayMs, SchedAgeCap)
                       /\ stepAge' = kMovingDelayMs
                       /\ poll' = thePoll
                       /\ UNCHANGED <<gState, gNextActionMs, led, sched>>
  /\ upMs' = Age(upMs, Took(clock, clock'), UpCap)
  /\ UNCHANGED <<pc, hoursToRun, gStartMs, timeUpSeen>>

Next == setup \/ LoopTimeUp \/ LoopIdle \/ LoopMoving

(* The sketch as built.                                                    *)
Spec == Init /\ [][Next]_vars

(* The sketch built with one of the documented values of kHoursToRun.      *)
ConfigInit == \E h \in HoursChoices : Boot(h)
ConfigSpec == ConfigInit /\ [][Next]_vars

----------------------------------------------------------------------------
(* stepSessionIfDue driven past its first micro-step.  UnitInitAt(s) is   *)
(* the state in which lines 104-122 have been applied once, at the         *)
(* deadline, to the session beginSession leaves, followed by the delay(1)  *)
(* of line 179, in a session that setup() started at the counter value s.  *)
(* From there on the steps are those of the sketch.  UnitSpec adds these   *)
(* states, for a session started at 0, to the initial states of Spec;      *)
(* WrapSpec adds them for a session started shortly before the counter     *)
(* wraps.                                                                  *)

UnitInitAt(s) ==
  \E dx \in MoveSamples, dy \in MoveSamples,
     n \in Random(kMinSteps, kMaxSteps + 1) :
    LET now0 == Add(s, kMinPauseMs) IN
    /\ pc = "loop"
    /\ clock = Add(now0, kMovingDelayMs)
    /\ hoursToRun = kHoursToRun
    /\ gState = "MOVING"
    /\ gSession = MicroStep(FreshSession(dx, dy, n), now0)
    /\ gStartMs = s
    /\ gNextActionMs = DeadlineAfter(s, kMinPauseMs)
    /\ led = "LOW"
    /\ poll = [branch |-> "step", waited |-> 0, age |-> StepAgeCap,
               atLimit |-> FALSE, effects |-> MoveEffects(FreshSession(dx, dy, n))]
    /\ moves = MicroStepMoves(FreshSession(dx, dy, n))
    /\ stepCalls = 1
    /\ sched = [from |-> "setup", at |-> s, pause |-> kMinPauseMs, now |-> s]
    /\ schedAge = Age(kMinPauseMs, kMovingDelayMs, SchedAgeCap)
    /\ stepAge = kMovingDelayMs
    /\ timeUpSeen = FALSE
    /\ upMs = kMinPauseMs + kMovingDelayMs

UnitInit == UnitInitAt(0)

WrapStart == Modulus - (kMinPauseMs + kMaxPauseMs + kBlinkMs)
WrapInit == UnitInitAt(WrapStart)
WrapSpec == (Init \/ WrapInit) /\ [][Next]_vars

UnitSpec == (Init \/ UnitInit) /\ [][Next]_vars

(* The same for a session whose first micro-step is taken within           *)
(* kStepInterval of the wrap of the counter.                               *)
StepWrapStart == Modulus - (kMinPauseMs + kStepInterval)
StepWrapInit == UnitInitAt(StepWrapStart)
StepWrapSpec == (Init \/ StepWrapInit) /\ [][Next]_vars

----------------------------------------------------------------------------
(* Properties.                                                             *)

RECURSIVE SumMoves(_)
SumMoves(ms) ==
  IF ms = << >> THEN <<0, 0>>
  ELSE LET rest == SumMoves(Tail(ms)) IN
       <<Head(ms)[1] + rest[1], Head(ms)[2] + rest[2]>>

Expired == TimeIsUp(Sub(clock, gStartMs), LimitMs(hoursToRun))
Live == gSession.i < gSession.steps
Completed == gSession.steps > 0 /\ gSession.i >= gSession.steps

(* C1: the first stepSessionIfDue invocation of a burst performs the first *)
(* micro-step: once the stepper has been invoked in a burst that is still  *)
(* moving, gSession.i is at least 1.                                       *)
C1_FirstStepImmediate ==
  (gState = "MOVING" /\ stepCalls >= 1) => gSession.i >= 1

(* C2: a burst that has started completes while the budget lasts.  Every   *)
(* poll lets at least delay(1) pass, so a micro-step is due at the latest  *)
(* every kStepInterval invocations and the first one at once: a burst of   *)
(* steps micro-steps is still moving after at most                         *)
(* (steps - 1) * kStepInterval invocations of the stepper.                 *)
C2_BurstCompletes ==
  gState = "MOVING" => stepCalls <= (gSession.steps - 1) * kStepInterval

(* C3: a poll that finds elapsed >= limitMs (equal included) emits no      *)
(* motion event, sets the LED on and leaves gState, gSession and           *)
(* gNextActionMs alone, whatever the state.                                *)
C3_TimeUpPollFrame ==
  [][(pc = "loop" /\ Sub(clock, gStartMs) >= LimitMs(hoursToRun))
       => /\ gState' = gState
          /\ gSession' = gSession
          /\ gNextActionMs' = gNextActionMs
          /\ moves' = moves
          /\ led' = "HIGH"]_vars

C3_Witness ==
  /\ poll.branch = "timeup"
  /\ poll.atLimit
  /\ gState = "MOVING"
  /\ led = "HIGH"

(* C4: the deltas passed to Mouse.move during a completed burst sum to     *)
(* (totalDx, totalDy); with totalDx = 10, totalDy = 0 and 2 steps they are *)
(* (5, 0) and (5, 0).                                                      *)
C4_DisplacementConserved ==
  Completed =>
    /\ SumMoves(moves) = <<gSession.totalDx, gSession.totalDy>>
    /\ (gSession.totalDx = 10 /\ gSession.totalDy = 0 /\ gSession.steps = 2)
         => moves = << <<5, 0>>, <<5, 0>> >>

C4_Witness ==
  /\ Completed
  /\ gState = "IDLE"
  /\ gSession.totalDx = 10 /\ gSession.totalDy = 0 /\ gSession.steps = 2
  /\ moves = << <<5, 0>>, <<5, 0>> >>

(* C5: after the first micro-step of a burst, a micro-step is performed    *)
(* only when at least kStepInterval has really passed since the previous   *)
(* one, and a stepper invocation before that changes nothing.              *)
C5_StepSpacing ==
  /\ [][(gSession.i >= 1 /\ gSession'.i = gSession.i + 1)
          => poll'.age >= kStepInterval]_vars
  /\ [][(pc = "loop" /\ ~Expired /\ gState = "MOVING" /\ gSession.i >= 1
           /\ poll'.age < kStepInterval)
          => /\ gSession' = gSession
             /\ gState' = gState
             /\ gNextActionMs' = gNextActionMs
             /\ led' = led
             /\ moves' = moves
             /\ poll'.branch = "notdue"]_vars

C5_Witness ==
  /\ gState = "MOVING"
  /\ gSession.i = 2
  /\ poll.branch = "step"
  /\ poll.age = kStepInterval
  /\ stepCalls >= 3

C7_ZeroHoursContinuous ==
  hoursToRun = 0 => ~timeUpSeen

(* C8: once a poll has taken the time's-up branch, every later poll takes  *)
(* it too.                                                                 *)
C8_TimeUpTerminal ==
  timeUpSeen => poll.branch = "timeup"

C10_ModeInvariant ==
  pc = "loop" =>
    /\ gState = "MOVING" <=> Live
    /\ gState = "MOVING" => gSession.i >= 0
    /\ gState = "IDLE" =>
         /\ sched.from # "none"
         /\ gNextActionMs = Add(sched.at, sched.pause)
         /\ sched.from = "burst" <=> Completed

C10_Witness ==
  /\ pc = "loop"
  /\ gState = "IDLE"
  /\ Completed
  /\ sched.from = "burst"
  /\ poll.branch = "wait"

C12_IdleWaitFrame ==
  [][(/\ pc = "loop" /\ ~Expired /\ gState = "IDLE"
      /\ \/ \A d \in 0 .. MaxJitter : Add(clock, d) < gNextActionMs
         \/ poll'.branch = "wait")
       => /\ poll'.branch = "wait"
          /\ gState' = gState
          /\ gSession' = gSession
          /\ gNextActionMs' = gNextActionMs
          /\ gStartMs' = gStartMs
          /\ led' = led
          /\ moves' = moves]_vars

C12_Witness ==
  /\ poll.branch = "wait"
  /\ gState = "IDLE"
  /\ clock < gNextActionMs
  /\ led = "LOW"
  /\ ~timeUpSeen

Has(seq, x) == \E k \in DOMAIN seq : seq[k] = x

(* C13: the LED is pulsed (on, then off) in exactly the stepSessionIfDue   *)
(* calls that complete a burst, once in each: the call that performs the   *)
(* micro-step making i equal to steps, after that step's Mouse.move and    *)
(* before gState = IDLE and the scheduling of the next window; a           *)
(* micro-step that does not complete the burst leaves the LED alone; and   *)
(* until a poll finds the budget expired the LED is off between polls.     *)
C13_CompletionPulse ==
  /\ [][(gState = "MOVING" /\ gState' = "IDLE")
          <=> (poll' # poll /\ Has(poll'.effects, "led_low"))]_vars
  /\ [][(gState = "MOVING" /\ gState' = "IDLE")
          => /\ gSession'.i = gSession.i + 1
             /\ gSession'.i = gSession'.steps
             /\ moves' = moves \o MicroStepMoves(gSession)
             /\ poll'.effects = MoveEffects(gSession) \o
                                  <<"led_high", "led_low", "idle", "schedule">>
             /\ led' = "LOW"]_vars
  /\ [][(gSession'.i = gSession.i + 1 /\ gSession'.i < gSession'.steps)
          => /\ led' = led
             /\ ~Has(poll'.effects, "led_high")
             /\ ~Has(poll'.effects, "led_low")]_vars
  /\ []((pc = "loop" /\ ~timeUpSeen) => led = "LOW")

C13_Witness ==
  /\ poll.branch = "complete"
  /\ poll.effects = <<"move", "led_high", "led_low", "idle", "schedule">>
  /\ gState = "IDLE"
  /\ led = "LOW"
  /\ ~timeUpSeen

(* C14: every event passed to Mouse.move has dx # 0 or dy # 0; a           *)
(* micro-step that is performed with a delta of (0, 0) emits no event and  *)
(* still stamps lastStepMs, stores the positions in prevX, prevY and       *)
(* increments i.                                                           *)
C14_ZeroDeltaSilent ==
  /\ [](\A k \in DOMAIN moves : moves[k][1] # 0 \/ moves[k][2] # 0)
  /\ [][(/\ pc = "loop" /\ ~Expired /\ gState = "MOVING"
          /\ poll'.branch \in {"step", "complete"}
          /\ StepPos(gSession.totalDx, gSession.i + 1, gSession.steps)
               = gSession.prevX
          /\ StepPos(gSession.totalDy, gSession.i + 1, gSession.steps)
               = gSession.prevY)
          => /\ moves' = moves
             /\ ~Has(poll'.effects, "move")
             /\ gSession'.i = gSession.i + 1
             /\ gSession'.prevX
                  = StepPos(gSession.totalDx, gSession.i + 1, gSession.steps)
             /\ gSession'.prevY
                  = StepPos(gSession.totalDy, gSession.i + 1, gSession.steps)
             /\ Sub(gSession'.lastStepMs, clock) \in 0 .. MaxJitter
             /\ gSession'.lastStepMs =
                  IF poll'.branch = "complete" THEN sched'.now
                  ELSE Sub(clock', kMovingDelayMs)]_vars

C14_Witness ==
  /\ poll.branch = "complete"
  /\ poll.effects = CompletionEffects
  /\ gSession.totalDx = 1 /\ gSession.totalDy = 0
  /\ gSession.i = 3
  /\ moves = << <<1, 0>> >>

(* C15: beginSession leaves i = 0; while the burst is moving i changes     *)
(* only in a performed micro-step, and every performed micro-step adds     *)
(* exactly 1; i never exceeds steps; and the burst ends (MOVING to IDLE)   *)
(* in exactly the micro-step that makes i equal to steps, so that a        *)
(* completed burst has performed steps micro-steps.                        *)
C15_StepIndexDiscipline ==
  /\ [](pc = "loop" => (0 <= gSession.i /\ gSession.i <= gSession.steps))
  /\ [][poll'.branch = "begin" => gSession'.i = 0]_vars
  /\ [][(gState = "MOVING" /\ gSession'.i # gSession.i)
          => /\ gSession'.i = gSession.i + 1
             /\ poll'.branch \in {"step", "complete"}]_vars
  /\ [][(gState = "MOVING" /\ poll' # poll
           /\ poll'.branch \in {"step", "complete"})
          => gSession'.i = gSession.i + 1]_vars
  /\ [][(gState = "MOVING" /\ gState' = "IDLE")
          <=> (gState = "MOVING" /\ gSession'.i = gSession.i + 1
                 /\ gSession'.i = gSession'.steps)]_vars
  /\ [](Completed => gSession.i = gSession.steps)

C15_Witness ==
  /\ poll.branch = "complete"
  /\ gState = "IDLE"
  /\ gSession.steps = kMaxSteps
  /\ gSession.i = kMaxSteps

(* C16: an IDLE poll that reads millis() at or after the deadline, the     *)
(* budget not expired, calls beginSession: gState becomes MOVING with      *)
(* i = 0 and prevX = prevY = 0, no motion event is emitted in that poll,   *)
(* and gNextActionMs and gStartMs are unchanged.  A session is replaced    *)
(* only by such a poll: from IDLE, never while a burst is live.            *)
C16_BurstStart ==
  /\ [][(/\ pc = "loop" /\ ~Expired /\ gState = "IDLE"
          /\ \/ \A d \in 0 .. MaxJitter : Add(clock, d) >= gNextActionMs
             \/ poll'.branch = "begin")
          => /\ poll'.branch = "begin"
             /\ gState' = "MOVING"
             /\ gSession'.i = 0
             /\ gSession'.prevX = 0 /\ gSession'.prevY = 0
             /\ gSession'.i < gSession'.steps
             /\ ~Has(poll'.effects, "move")
             /\ moves' = << >>
             /\ led' = led
             /\ gNextActionMs' = gNextActionMs
             /\ gStartMs' = gStartMs]_vars
  /\ [][(\/ gSession'.totalDx # gSession.totalDx
          \/ gSession'.totalDy # gSession.totalDy
          \/ gSession'.steps # gSession.steps
          \/ gSession'.i < gSession.i
          \/ (gState # "MOVING" /\ gState' = "MOVING"))
          => /\ gState = "IDLE"
             /\ ~Live
             /\ poll'.branch = "begin"]_vars

C16_Witness ==
  /\ poll.branch = "begin"
  /\ gState = "MOVING"
  /\ gSession.i = 0 /\ gSession.prevX = 0 /\ gSession.prevY = 0
  /\ gSession.totalDx = 10
  /\ moves = << >>
  /\ sched.from = "burst"

(* C17: the gate of line 100 and the budget test of line 162 follow real   *)
(* time across the wrap of the counter: after the first micro-step of a    *)
(* burst, a stepSessionIfDue call performs a micro-step exactly when at    *)
(* least kStepInterval has really passed since the previous one, also when *)
(* the counter wrapped in between; and, within one lap of the counter      *)
(* after setup(), a poll finds the budget expired exactly when limitMs has *)
(* really passed since gStartMs was read.                                  *)
C17_GateWrapSafe ==
  /\ [][(/\ gState = "MOVING" /\ gSession.i >= 1
          /\ poll'.branch \in {"notdue", "step", "complete"})
          => ((poll'.age >= kStepInterval) <=> (gSession'.i = gSession.i + 1))]_vars
  /\ []((pc = "loop" /\ upMs < Modulus)
          => (Expired <=> upMs >= LimitMs(hoursToRun)))

C17_Witness ==
  /\ gStartMs = StepWrapStart
  /\ poll.branch = "step"
  /\ poll.age = kStepInterval
  /\ gSession.i = 2
  /\ gSession.lastStepMs < kStepInterval
  /\ clock < gStartMs

Abs(x) == IF x < 0 THEN -x ELSE x
Sign(x) == IF x < 0 THEN -1 ELSE IF x > 0 THEN 1 ELSE 0

(* The events of the burst sum to (prevX, prevY), and the cumulative       *)
(* position lies between 0 and the target.                                 *)
CumulativePosition ==
  /\ SumMoves(moves) = <<gSession.prevX, gSession.prevY>>
  /\ Abs(gSession.prevX) <= Abs(gSession.totalDx)
  /\ Abs(gSession.prevY) <= Abs(gSession.totalDy)
  /\ gSession.prevX * gSession.totalDx >= 0
  /\ gSession.prevY * gSession.totalDy >= 0

Count(seq, x) == Cardinality({k \in DOMAIN seq : seq[k] = x})

(* C19: while a burst is moving, up to and including its completing        *)
(* micro-step, totalDx, totalDy and steps are not modified; after setup()  *)
(* gNextActionMs is modified only by a completing micro-step and gStartMs  *)
(* never; scheduleNextIdleWindow is invoked once by setup() and after that *)
(* once in each poll that completes a burst and in no other poll.          *)
C19_BurstFrame ==
  /\ [][gState = "MOVING"
          => /\ gSession'.totalDx = gSession.totalDx
             /\ gSession'.totalDy = gSession.totalDy
             /\ gSession'.steps = gSession.steps]_vars
  /\ [][pc = "loop" => gStartMs' = gStartMs]_vars
  /\ [][pc = "boot"
          => /\ pc' = "loop"
             /\ sched.from = "none" /\ sched'.from = "setup"
             /\ gNextActionMs' = Add(sched'.at, sched'.pause)]_vars
  /\ [][(pc = "loop" /\ (gNextActionMs' # gNextActionMs \/ sched' # sched))
          => /\ gState = "MOVING" /\ gState' = "IDLE"
             /\ gSession'.i = gSession'.steps
             /\ sched'.from = "burst"]_vars
  /\ [][(pc = "loop" /\ poll' # poll)
          => Count(poll'.effects, "schedule")
               = IF gState = "MOVING" /\ gState' = "IDLE" THEN 1 ELSE 0]_vars
  /\ [][(gState = "MOVING" /\ gState' = "IDLE")
          => /\ poll' # poll
             /\ sched' # sched
             /\ gNextActionMs' = Add(sched'.at, sched'.pause)]_vars

C19_Witness ==
  /\ poll.branch = "complete"
  /\ Count(poll.effects, "schedule") = 1
  /\ sched.from = "burst"
  /\ gState = "IDLE"
  /\ gSession.totalDx = 10 /\ gSession.totalDy = -kMoveRangePx
  /\ gSession.steps = kMaxSteps
  /\ gStartMs = 0

====
